---- MODULE Spec2Model ----
(***************************************************************************)
(* A model of the AIGM rules assistant:                                    *)
(*   - the push-to-talk voice session of SessionScreen (src/unnamed/       *)
(*     part_002), driven by the Web Speech capture capability, its timers  *)
(*     and the answer client (src/unnamed/part_000);                       *)
(*   - the answer endpoint of src/api/rules/answer.js (scoreChunk,         *)
(*     retrieveChunks, handler).                                           *)
(* Texts that the code processes are sequences of one-character strings.   *)
(***************************************************************************)
EXTENDS Integers, Sequences, FiniteSets, TLC

(***************************************************************************)
(* Bounds of the model.                                                    *)
(***************************************************************************)
\* the most timers (setTimeout callbacks) pending at once
MaxTimers == 3
\* the most finalized utterances (onresult events) of one session
MaxUtterances == 2
\* the longest answer text given to the sentence limit
MaxAnswerLen == 7
\* the most chunks in a collection given to retrieveChunks
MaxChunks == 3
\* the largest topN given to retrieveChunks besides the handler's
MaxTopN == 2

(***************************************************************************)
(* Program constants.                                                      *)
(***************************************************************************)
maxRetries == 3
RestartDelay == 100
RetryDelay == 500
ClearDelay == 2000

(***************************************************************************)
(* Texts.                                                                  *)
(***************************************************************************)
\* String.prototype.trim and the regular expression class \s (WhiteSpace and
\* LineTerminator of ECMAScript).  The second line holds U+000B, U+00A0,
\* U+1680 and U+FEFF; a character that a string of this module cannot hold
\* is named by its escape: U+2000..U+200A, U+2028, U+2029, U+202F, U+205F,
\* U+3000 here.
WhiteSpace ==
  {" ", "\t", "\n", "\r", "\f",
   ""," "," ","﻿",
   "\\u2000","\\u2001","\\u2002","\\u2003","\\u2004","\\u2005","\\u2006","\\u2007",
   "\\u2008","\\u2009","\\u200a","\\u2028","\\u2029","\\u202f","\\u205f","\\u3000"}

\* the class [.!?] of the sentence split
SentenceEnd == {".", "!", "?"}

\* String.prototype.split(/[Sep]+/): a maximal run of separators is one
\* delimiter; a leading or trailing delimiter leaves an empty piece, and the
\* empty text splits into one empty piece.
RECURSIVE SplitRuns(_, _, _, _)
SplitRuns(s, i, cur, Sep) ==
  IF i > Len(s) THEN <<cur>>
  ELSE IF s[i] \in Sep
       THEN IF i > 1 /\ s[i-1] \in Sep
            THEN SplitRuns(s, i + 1, cur, Sep)
            ELSE <<cur>> \o SplitRuns(s, i + 1, <<>>, Sep)
       ELSE SplitRuns(s, i + 1, Append(cur, s[i]), Sep)

Split(s, Sep) == SplitRuns(s, 1, <<>>, Sep)

\* String.prototype.includes: needle is a contiguous part of hay
Includes(hay, needle) ==
  \E k \in 0..(Len(hay) - Len(needle)) :
    \A i \in DOMAIN needle : hay[k + i] = needle[i]

\* s.trim().length > 0
NonBlank(s) == \E i \in DOMAIN s : s[i] \notin WhiteSpace

\* Array.prototype.slice(0, n)
Take(xs, n) == SubSeq(xs, 1, IF Len(xs) < n THEN Len(xs) ELSE n)

\* Array.prototype.join(sep)
RECURSIVE Join(_, _)
Join(xs, sep) ==
  IF xs = <<>> THEN <<>>
  ELSE IF Len(xs) = 1 THEN xs[1]
       ELSE xs[1] \o sep \o Join(Tail(xs), sep)

\* the sentence limit without slice(0, 3)
LimitSentencesAll(answer) ==
  LET allSentences == SelectSeq(Split(answer, SentenceEnd), NonBlank)
  IN  Join(allSentences, <<".", " ">>)
        \o (IF Len(allSentences) > 0 THEN <<".">> ELSE <<>>)

\* the client-side safety net of onresult: at most 3 sentences
LimitSentences(answer) ==
  LET allSentences == SelectSeq(Split(answer, SentenceEnd), NonBlank)
      limitedSentences == Take(allSentences, 3)
  IN  Join(limitedSentences, <<".", " ">>)
        \o (IF Len(limitedSentences) > 0 THEN <<".">> ELSE <<>>)

FallbackAnswer == <<"I"," ","c","o","u","l","d","n","'","t"," ","f","i","n","d"," ","a"," ","m","a","t","c","h","i","n","g"," ","r","u","l","e"," ","i","n"," ","t","h","e"," ","r","u","l","e","b","o","o","k"," ","e","x","c","e","r","p","t","s",".">>

ErrorText == <<"I"," ","h","a","d"," ","t","r","o","u","b","l","e"," ","g","e","t","t","i","n","g"," ","a","n"," ","a","n","s","w","e","r","."," ","P","l","e","a","s","e"," ","t","r","y"," ","a","g","a","i","n",".">>

(***************************************************************************)
(* The voice session (SessionScreen).                                      *)
(***************************************************************************)
VARIABLES
  listening,          \* useState listening
  speechSupported,    \* useState speechSupported
  error,              \* useState error (NoError for null)
  isHushed,           \* useState isHushed
  isHushedRef,        \* isHushedRef.current
  transcript,         \* useState transcript: entries appended by setTranscript
  hasRecognition,     \* recognitionRef.current is not null
  isHolding,          \* isHoldingRef.current
  recognitionActive,  \* recognitionActiveRef.current
  retryCount,         \* retryCountRef.current
  engine,             \* the capture capability (SpeechRecognition object)
  timers,             \* pending setTimeout callbacks, in scheduling order
  pending,            \* utterances whose askRulebook call is in flight
  speechQueue,        \* utterances handed to speechSynthesis.speak since the last cancel
  speechSynthesis,    \* 'speechSynthesis' in window
  mounted,            \* the effect cleanup has not run
  netErrs,            \* history: consecutive network errors of the current hold
  retries,            \* history: retries that network errors scheduled since the last press
  lastOp              \* history: the handler that ran last and what it requested

NoError == "null"
InsecureMsg == "Speech recognition requires HTTPS. Please use https:// or localhost."
FirefoxMsg == "Firefox does not support voice input. Please use Chrome, Edge, or Safari."
IOSMsg == "Voice input is not available on iOS. Use the Rules Help screen to search for rules."
MobileMsg == "Voice input may not work on mobile browsers. Try Rules Help to search for rules."
NoApiMsg == "Speech recognition is not available in this browser. Try Chrome, Edge, or Safari."
NotInitializedMsg == "Speech recognition not initialized. Please refresh the page."
NotAvailableMsg == "Speech recognition is not available in this browser."
MicNotFoundMsg == "Microphone not found or not accessible. Please check your microphone settings."
PermissionDeniedMsg == "Microphone permission denied. Please allow microphone access in your browser settings and refresh the page."
\* the text of part_002:176; its U+201A is written as an escape
NetFatalMsg == "Cannot connect to speech recognition service. This may be due to:\n\\u201aÄ¢ Firewall blocking Google services\n\\u201aÄ¢ VPN or network restrictions\n\\u201aÄ¢ Regional service limitations\n\nTry refreshing the page or check your network settings."
RetryFailedMsg == "Cannot connect to speech recognition service. Check your internet connection or firewall settings."
UnavailableMsg == "Speech recognition unavailable. Please try again."
MicPermissionMsg == "Microphone permission required. Please allow microphone access and refresh."
CouldNotStartPrefix == "Could not start listening: "

\* `Connection issue (retry ${retryCountRef.current}/${maxRetries})...`
RetryMessage(n) ==
  CASE n = 1 -> "Connection issue (retry 1/3)..."
    [] n = 2 -> "Connection issue (retry 2/3)..."
    [] n = 3 -> "Connection issue (retry 3/3)..."
    [] OTHER -> "Connection issue (retry n/3)..."

\* the environments the initialization effect tells apart
Environments == {"ok", "insecure", "firefox", "noapi-ios", "noapi-mobile", "noapi", "ios"}

InitError(env) ==
  CASE env = "ok" -> NoError
    [] env = "insecure" -> InsecureMsg
    [] env = "firefox" -> FirefoxMsg
    [] env = "noapi-ios" -> IOSMsg
    [] env = "noapi-mobile" -> MobileMsg
    [] env = "noapi" -> NoApiMsg
    [] env = "ios" -> IOSMsg

\* event.error of the capture capability
ErrorKinds == {"no-speech", "audio-capture", "not-allowed", "network", "aborted", "other"}

\* the recognized texts (lastResult[0].transcript)
Queries == {<<"w","h","a","t"," ","i","s"," ","t","h","e"," ","r","o","b","b","e","r">>}

\* response.answer of a resolved askRulebook call
Answers == {<<"Y","e","s",".">>}

\* the delay of a timer kind
Delay(kind) ==
  CASE kind = "restart" -> RestartDelay
    [] kind = "retry" -> RetryDelay
    [] kind = "clear" -> ClearDelay

\* A timer as scheduled; stale records that a release happened since.
Timer(kind) == [kind |-> kind, stale |-> FALSE]

\* Timers run in deadline order: a timer that was scheduled earlier with a
\* delay that is not longer runs first.
CanFire(i) ==
  /\ i \in DOMAIN timers
  /\ \A j \in 1..(i - 1) : Delay(timers[j].kind) > Delay(timers[i].kind)

RemoveAt(s, i) == SubSeq(s, 1, i - 1) \o SubSeq(s, i + 1, Len(s))

\* what a handler did: start is "none", "ok" (start() accepted) or "threw"
\* (start() rejected: InvalidStateError, recognition has already started)
Op(name) == [op |-> name, start |-> "none", stop |-> FALSE, escaped |-> FALSE,
             stale |-> FALSE, spoke |-> FALSE]

\* a sequence of characters as a string
RECURSIVE Str(_)
Str(s) == IF s = <<>> THEN "" ELSE Head(s) \o Str(Tail(s))

\* What recognition.start() does: it returns, or it throws an exception with
\* a name and a message.
Returns == [name |-> "none", message |-> <<>>]
AlreadyStarted ==
  [name |-> "InvalidStateError",
   message |-> <<"F","a","i","l","e","d"," ","t","o"," ","e","x","e","c","u","t","e"," ","'","s","t","a","r","t","'"," ","o","n"," ","'","S","p","e","e","c","h","R","e","c","o","g","n","i","t","i","o","n","'",":"," ","r","e","c","o","g","n","i","t","i","o","n"," ","h","a","s"," ","a","l","r","e","a","d","y"," ","s","t","a","r","t","e","d",".">>]
InvalidState ==
  [name |-> "InvalidStateError",
   message |-> <<"T","h","e"," ","o","b","j","e","c","t"," ","i","s"," ","i","n"," ","a","n"," ","i","n","v","a","l","i","d"," ","s","t","a","t","e",".">>]
NotAllowed ==
  [name |-> "NotAllowedError",
   message |-> <<"P","e","r","m","i","s","s","i","o","n"," ","d","e","n","i","e","d",":"," ","m","i","c","r","o","p","h","o","n","e"," ","n","o","t"," ","a","l","l","o","w","e","d">>]
Crashed ==
  [name |-> "UnknownError",
   message |-> <<"a","u","d","i","o"," ","s","e","r","v","i","c","e"," ","c","r","a","s","h","e","d">>]
\* an exception whose message is the empty string; its toString() is its name
NoMessage == [name |-> "UnknownError", message |-> <<>>]

\* recognition.start() on a capability in state e: a capability that is not
\* idle throws InvalidStateError, with the browser's message; an idle one
\* starts, unless the browser refuses
StartResults(e) ==
  IF e = "idle" THEN {Returns, NotAllowed, Crashed, NoMessage}
  ELSE {AlreadyStarted, InvalidState}

\* `e.message || e.toString()`
MessageOrToString(e) == IF e.message # <<>> THEN Str(e.message) ELSE e.name

\* the catch of startListening: "already started" is a confirmation
TreatedAsStarted(e) ==
  e.message # <<>> /\ Includes(e.message, <<"s","t","a","r","t","e","d">>)

\* the catch of startListening: the message it sets otherwise
StartErrorMessage(e) ==
  IF e.name = "InvalidStateError"
     \/ Includes(e.message, <<"n","o","t"," ","a","l","l","o","w","e","d">>)
  THEN MicPermissionMsg
  ELSE CouldNotStartPrefix \o MessageOrToString(e)

\* recognition.stop(): a starting or active capability winds down
Stopped(e) == IF e \in {"starting", "active"} THEN "stopping" ELSE e

UttCount == Cardinality({i \in DOMAIN transcript : transcript[i].type = "user"})

\* the state once the initialization effect has run in environment env
InitSessionIn(env) ==
  /\ speechSupported = (env = "ok")
  /\ hasRecognition = (env = "ok")
  /\ error = InitError(env)
  /\ listening = FALSE
  /\ isHushed = FALSE
  /\ isHushedRef = FALSE
  /\ transcript = <<>>
  /\ isHolding = FALSE
  /\ recognitionActive = FALSE
  /\ retryCount = 0
  /\ engine = "idle"
  /\ timers = <<>>
  /\ pending = {}
  /\ speechQueue = {}
  /\ speechSynthesis \in BOOLEAN
  /\ mounted = TRUE
  /\ netErrs = -1
  /\ retries = 0
  /\ lastOp = Op("Init")

InitSession == \E env \in Environments : InitSessionIn(env)

(***************************************************************************)
(* The answer endpoint's state (one request at a time).                    *)
(***************************************************************************)
VARIABLES
  hpc,             \* where the handler is: "idle", "awaitModel", "done"
  req,             \* the request being served
  relevantChunks,  \* const relevantChunks of the handler
  response,        \* what res.status(..).json(..) sent
  modelCalls,      \* history: fetch calls to the model service for this request
  retrieved,       \* history: retrieveChunks ran for this request
  modelReply,      \* history: how the model call of this request ended
  clientResult     \* how the askRulebook call that sent the request settled

\* A function of the program applied on its own: the call and what it returned.
VARIABLES
  call,            \* the function and its arguments
  returned         \* its return value, or NotReturned

hvars == <<hpc, req, relevantChunks, response, modelCalls, retrieved, modelReply,
           clientResult>>

fvars == <<call, returned>>

svars == <<listening, speechSupported, error, isHushed, isHushedRef, transcript,
           hasRecognition, isHolding, recognitionActive, retryCount, engine,
           timers, pending, speechQueue, speechSynthesis, mounted, netErrs, retries,
           lastOp>>

NoRequest == [method |-> "none"]
NoResponse == [status |-> 0]
NoModelReply == [kind |-> "none"]
NoResult == [settled |-> "no"]
NoCall == [fn |-> "none"]
NotReturned == [done |-> FALSE]
Returned(value) == [done |-> TRUE, value |-> value]

HandlerIdle ==
  /\ hpc = "idle"
  /\ req = NoRequest
  /\ relevantChunks = <<>>
  /\ response = NoResponse
  /\ modelCalls = 0
  /\ retrieved = FALSE
  /\ modelReply = NoModelReply
  /\ clientResult = NoResult

\* no function is applied on its own
FunctionsIdle ==
  /\ call = NoCall
  /\ returned = NotReturned

(***************************************************************************)
(* The session's handlers.                                                 *)
(***************************************************************************)
\* a press that never finds the capability unavailable
CannotStartUnchecked == FALSE

\* `!speechSupported || !recognitionRef.current` of startListening
CannotStart == ~speechSupported \/ ~hasRecognition

\* startListening: onMouseDown / onTouchStart of the mic button
Press ==
  /\ mounted
  /\ IF CannotStart
     THEN /\ error' = (IF ~hasRecognition THEN NotInitializedMsg ELSE NotAvailableMsg)
          /\ lastOp' = Op("Press")
          /\ UNCHANGED <<isHolding, retryCount, recognitionActive, listening, engine, netErrs,
                       retries>>
     ELSE /\ retryCount' = 0
          /\ netErrs' = 0
          /\ retries' = 0
          /\ IF recognitionActive
             THEN /\ isHolding' = TRUE
                  /\ error' = NoError
                  /\ lastOp' = Op("Press")
                  /\ UNCHANGED <<recognitionActive, listening, engine>>
             ELSE \E e \in StartResults(engine) :
                    IF e = Returns
                    THEN /\ engine' = "starting"
                         /\ lastOp' = [Op("Press") EXCEPT !.start = "ok"]
                         /\ isHolding' = TRUE
                         /\ error' = NoError
                         /\ UNCHANGED <<recognitionActive, listening>>
                    ELSE IF TreatedAsStarted(e)
                    THEN /\ recognitionActive' = TRUE
                         /\ listening' = TRUE
                         /\ isHolding' = TRUE
                         /\ error' = NoError
                         /\ lastOp' = [Op("Press") EXCEPT !.start = "threw"]
                         /\ UNCHANGED engine
                    ELSE /\ error' = StartErrorMessage(e)
                         /\ isHolding' = FALSE
                         /\ lastOp' = [Op("Press") EXCEPT !.start = "threw"]
                         /\ UNCHANGED <<recognitionActive, listening, engine>>
  /\ UNCHANGED <<speechSupported, isHushed, isHushedRef, transcript, hasRecognition,
                 timers, pending, speechQueue, mounted>>
  /\ UNCHANGED <<speechSynthesis, hvars, fvars>>

\* stopListening: onMouseUp / onMouseLeave / onTouchEnd of the mic button
Release ==
  /\ mounted
  /\ isHolding' = FALSE
  /\ netErrs' = -1
  /\ retries' = 0
  /\ timers' = [i \in DOMAIN timers |->
                  IF timers[i].kind = "clear" THEN timers[i]
                  ELSE [timers[i] EXCEPT !.stale = TRUE]]
  /\ IF hasRecognition /\ recognitionActive
     THEN /\ engine' = Stopped(engine)
          /\ recognitionActive' = FALSE
          /\ lastOp' = [Op("Release") EXCEPT !.stop = TRUE]
     ELSE /\ lastOp' = Op("Release")
          /\ UNCHANGED <<engine, recognitionActive>>
  /\ UNCHANGED <<listening, speechSupported, error, isHushed, isHushedRef, transcript,
                 hasRecognition, retryCount, pending, speechQueue, mounted>>
  /\ UNCHANGED <<speechSynthesis, hvars, fvars>>

\* a mute toggle that also stops the capture
HushToggleStopsCapture ==
  /\ mounted
  /\ isHushed' = ~isHushed
  /\ isHushedRef' = ~isHushed
  /\ speechQueue' = {}
  /\ engine' = Stopped(engine)
  /\ recognitionActive' = FALSE
  /\ lastOp' = [Op("HushToggle") EXCEPT !.stop = TRUE]
  /\ UNCHANGED <<listening, speechSupported, error, transcript, hasRecognition, isHolding,
                 retryCount, timers, pending, mounted, netErrs, retries>>
  /\ UNCHANGED <<speechSynthesis, hvars, fvars>>

\* a mute toggle whose state never reaches isHushedRef
HushToggleWithoutRefSync ==
  /\ mounted
  /\ isHushed' = ~isHushed
  /\ speechQueue' = {}
  /\ lastOp' = Op("HushToggle")
  /\ UNCHANGED <<listening, speechSupported, error, transcript, hasRecognition, isHolding,
                 recognitionActive, retryCount, engine, timers, pending, mounted, netErrs,
                 retries, isHushedRef>>
  /\ UNCHANGED <<speechSynthesis, hvars, fvars>>

\* handleHushToggle, with the effect that copies isHushed to isHushedRef
HushToggle ==
  /\ mounted
  /\ isHushed' = ~isHushed
  /\ isHushedRef' = ~isHushed
  /\ speechQueue' = {}
  /\ lastOp' = Op("HushToggle")
  /\ UNCHANGED <<listening, speechSupported, error, transcript, hasRecognition, isHolding,
                 recognitionActive, retryCount, engine, timers, pending, mounted, netErrs, retries>>
  /\ UNCHANGED <<speechSynthesis, hvars, fvars>>

\* an onstart that leaves the retry count as it is
OnStartKeepsRetryCount ==
  /\ engine = "starting"
  /\ engine' = "active"
  /\ recognitionActive' = TRUE
  /\ listening' = TRUE
  /\ error' = NoError
  /\ netErrs' = (IF netErrs >= 0 THEN 0 ELSE netErrs)
  /\ lastOp' = Op("OnStart")
  /\ UNCHANGED <<speechSupported, isHushed, isHushedRef, transcript, hasRecognition,
                 isHolding, timers, pending, speechQueue, mounted, retryCount, retries>>
  /\ UNCHANGED <<speechSynthesis, hvars, fvars>>

\* recognition.onstart
OnStart ==
  /\ engine = "starting"
  /\ engine' = "active"
  /\ recognitionActive' = TRUE
  /\ listening' = TRUE
  /\ error' = NoError
  /\ retryCount' = 0
  /\ netErrs' = (IF netErrs >= 0 THEN 0 ELSE netErrs)
  /\ UNCHANGED retries
  /\ lastOp' = Op("OnStart")
  /\ UNCHANGED <<speechSupported, isHushed, isHushedRef, transcript, hasRecognition,
                 isHolding, timers, pending, speechQueue, mounted>>
  /\ UNCHANGED <<speechSynthesis, hvars, fvars>>

\* onend restarts: a plausible slip tests the active flag onend has just cleared
OnEndRestartsIfActive == isHolding /\ hasRecognition /\ recognitionActive

\* onend restarts when the button is still held (and the session not torn down)
OnEndRestarts == isHolding /\ hasRecognition

\* recognition.onend
OnEnd ==
  /\ engine \in {"starting", "active", "stopping", "ending"}
  /\ OnEndRestarts => Len(timers) < MaxTimers
  /\ engine' = "idle"
  /\ recognitionActive' = FALSE
  /\ listening' = FALSE
  /\ timers' = (IF OnEndRestarts THEN Append(timers, Timer("restart")) ELSE timers)
  /\ lastOp' = Op("OnEnd")
  /\ UNCHANGED <<speechSupported, error, isHushed, isHushedRef, transcript, hasRecognition,
                 isHolding, retryCount, pending, speechQueue, mounted, netErrs, retries>>
  /\ UNCHANGED <<speechSynthesis, hvars, fvars>>

\* the network branch with an off-by-one bound
ShouldRetryOffByOne(kind) == kind = "network" /\ isHolding /\ retryCount <= maxRetries

\* the network branch without its bound
ShouldRetryUnbounded(kind) == kind = "network" /\ isHolding

\* the network branch retries: the button is held and retries are left
ShouldRetry(kind) == kind = "network" /\ isHolding /\ retryCount < maxRetries

\* errorMessage with the permission and device errors treated like no-speech
ErrorMessageSilentFatal(kind) ==
  CASE kind \in {"no-speech", "audio-capture", "not-allowed", "aborted"} -> NoError
    [] kind = "network" ->
         (IF ShouldRetry(kind) THEN RetryMessage(retryCount + 1) ELSE NetFatalMsg)
    [] OTHER -> UnavailableMsg

\* errorMessage of recognition.onerror
ErrorMessage(kind) ==
  CASE kind = "no-speech" -> NoError
    [] kind = "audio-capture" -> MicNotFoundMsg
    [] kind = "not-allowed" -> PermissionDeniedMsg
    [] kind = "network" ->
         (IF ShouldRetry(kind) THEN RetryMessage(retryCount + 1) ELSE NetFatalMsg)
    [] kind = "aborted" -> NoError
    [] OTHER -> UnavailableMsg

\* recognition.onerror
OnError(kind) ==
  /\ engine \in {"starting", "active", "stopping"}
  /\ ShouldRetry(kind) => Len(timers) + 2 <= MaxTimers
  /\ engine' = "ending"
  /\ recognitionActive' = FALSE
  /\ listening' = FALSE
  /\ isHolding' = (CASE kind \in {"no-speech", "aborted"} -> isHolding
                     [] kind = "network" -> ShouldRetry(kind)
                     [] OTHER -> FALSE)
  /\ retryCount' = (CASE ShouldRetry(kind) -> retryCount + 1
                      [] kind \in {"network", "aborted"} -> 0
                      [] OTHER -> retryCount)
  /\ error' = ErrorMessage(kind)
  /\ timers' = (IF ShouldRetry(kind)
                THEN timers \o <<Timer("retry"), Timer("clear")>> ELSE timers)
  /\ netErrs' = (IF kind = "network" /\ netErrs >= 0
                 THEN (IF netErrs < maxRetries + 1 THEN netErrs + 1 ELSE netErrs)
                 ELSE -1)
  /\ retries' = (IF ShouldRetry(kind) /\ retries <= maxRetries
                 THEN retries + 1 ELSE retries)
  /\ lastOp' = Op("OnError")
  /\ UNCHANGED <<speechSupported, isHushed, isHushedRef, transcript, hasRecognition,
                 pending, speechQueue, mounted>>
  /\ UNCHANGED <<speechSynthesis, hvars, fvars>>

\* the callback of the 100 ms timer of onend without its isHoldingRef test
RestartTimerUnguarded ==
  \E i \in DOMAIN timers :
    /\ timers[i].kind = "restart"
    /\ CanFire(i)
    /\ timers' = RemoveAt(timers, i)
    /\ IF hasRecognition
       THEN \E e \in StartResults(engine) :
              IF e = Returns
              THEN /\ engine' = "starting"
                   /\ lastOp' = [Op("RestartTimer") EXCEPT !.start = "ok",
                                                           !.stale = timers[i].stale]
              ELSE /\ lastOp' = [Op("RestartTimer") EXCEPT !.start = "threw",
                                                           !.escaped = TRUE,
                                                           !.stale = timers[i].stale]
                   /\ UNCHANGED engine
       ELSE /\ lastOp' = [Op("RestartTimer") EXCEPT !.stale = timers[i].stale]
            /\ UNCHANGED engine
    /\ UNCHANGED <<listening, speechSupported, error, isHushed, isHushedRef, transcript,
                   hasRecognition, isHolding, recognitionActive, retryCount, pending,
                   speechQueue, mounted, netErrs, retries>>
    /\ UNCHANGED <<speechSynthesis, hvars, fvars>>

\* the callback of the 100 ms timer of onend
RestartTimer ==
  \E i \in DOMAIN timers :
    /\ timers[i].kind = "restart"
    /\ CanFire(i)
    /\ timers' = RemoveAt(timers, i)
    /\ IF isHolding /\ hasRecognition
       THEN \E e \in StartResults(engine) :
              IF e = Returns
              THEN /\ engine' = "starting"
                   /\ lastOp' = [Op("RestartTimer") EXCEPT !.start = "ok",
                                                           !.stale = timers[i].stale]
              ELSE \* start() throws and nothing catches it in the callback
                   /\ lastOp' = [Op("RestartTimer") EXCEPT !.start = "threw",
                                                           !.escaped = TRUE,
                                                           !.stale = timers[i].stale]
                   /\ UNCHANGED engine
       ELSE /\ lastOp' = [Op("RestartTimer") EXCEPT !.stale = timers[i].stale]
            /\ UNCHANGED engine
    /\ UNCHANGED <<listening, speechSupported, error, isHushed, isHushedRef, transcript,
                   hasRecognition, isHolding, recognitionActive, retryCount, pending,
                   speechQueue, mounted, netErrs, retries>>
    /\ UNCHANGED <<speechSynthesis, hvars, fvars>>

\* the callback of the 500 ms timer of onerror (network)
RetryTimer ==
  \E i \in DOMAIN timers :
    /\ timers[i].kind = "retry"
    /\ CanFire(i)
    /\ timers' = RemoveAt(timers, i)
    /\ IF isHolding /\ hasRecognition /\ ~recognitionActive
       THEN \E e \in StartResults(engine) :
              IF e = Returns
              THEN /\ engine' = "starting"
                   /\ lastOp' = [Op("RetryTimer") EXCEPT !.start = "ok",
                                                         !.stale = timers[i].stale]
                   /\ UNCHANGED <<isHolding, error>>
              ELSE \* start() throws into the callback's catch
                   /\ lastOp' = [Op("RetryTimer") EXCEPT !.start = "threw",
                                                         !.stale = timers[i].stale]
                   /\ isHolding' = (IF retryCount >= maxRetries THEN FALSE ELSE isHolding)
                   /\ error' = (IF retryCount >= maxRetries THEN RetryFailedMsg ELSE error)
                   /\ UNCHANGED engine
       ELSE /\ lastOp' = [Op("RetryTimer") EXCEPT !.stale = timers[i].stale]
            /\ UNCHANGED <<engine, isHolding, error>>
    /\ UNCHANGED <<listening, speechSupported, isHushed, isHushedRef, transcript,
                   hasRecognition, recognitionActive, retryCount, pending,
                   speechQueue, mounted, netErrs, retries>>
    /\ UNCHANGED <<speechSynthesis, hvars, fvars>>

\* the callback of the 2000 ms timer that clears the retry message
ClearTimer ==
  \E i \in DOMAIN timers :
    /\ timers[i].kind = "clear"
    /\ CanFire(i)
    /\ timers' = RemoveAt(timers, i)
    /\ error' = (IF retryCount < maxRetries THEN NoError ELSE error)
    /\ lastOp' = Op("ClearTimer")
    /\ UNCHANGED <<listening, speechSupported, isHushed, isHushedRef, transcript,
                   hasRecognition, isHolding, recognitionActive, retryCount, engine,
                   pending, speechQueue, mounted, netErrs, retries>>
    /\ UNCHANGED <<speechSynthesis, hvars, fvars>>

\* setTranscript with the new entry first
PrependEntry(t, entry) == <<entry>> \o t

\* setTranscript(prev => [...prev, entry])
AppendEntry(t, entry) == Append(t, entry)

\* recognition.onresult up to its await: the user entry and the askRulebook call
OnResult(query) ==
  /\ engine \in {"active", "stopping"}
  /\ UttCount < MaxUtterances
  /\ engine' = "ending"
  /\ transcript' = AppendEntry(transcript,
                               [type |-> "user", text |-> query, utt |-> UttCount + 1])
  /\ pending' = pending \cup {UttCount + 1}
  /\ lastOp' = Op("OnResult")
  /\ UNCHANGED <<listening, speechSupported, error, isHushed, isHushedRef, hasRecognition,
                 isHolding, recognitionActive, retryCount, timers, speechQueue, mounted,
                 netErrs, retries>>
  /\ UNCHANGED <<speechSynthesis, hvars, fvars>>

\* how an askRulebook call settles: resolved with an answer, or rejected
Outcomes == [ok : {TRUE}, answer : Answers] \cup {[ok |-> FALSE, answer |-> <<>>]}

\* the text of the assistant entry
AssistantText(outcome) ==
  IF outcome.ok
  THEN LimitSentences(IF outcome.answer = <<>> THEN FallbackAnswer ELSE outcome.answer)
  ELSE ErrorText

\* onresult without its catch branch: a rejected call leaves no entry
AnswerEntriesNoCatch(n, outcome) ==
  IF outcome.ok
  THEN <<[type |-> "assistant", text |-> AssistantText(outcome), utt |-> n]>>
  ELSE <<>>

\* onresult dropping the answer of a call that settles after the release
AnswerEntriesIfHolding(n, outcome) ==
  IF isHolding
  THEN <<[type |-> "assistant", text |-> AssistantText(outcome), utt |-> n]>>
  ELSE <<>>

\* the entries onresult appends once the call for utterance n has settled:
\* the answer in the try branch, the error text in the catch branch
AnswerEntries(n, outcome) ==
  <<[type |-> "assistant", text |-> AssistantText(outcome), utt |-> n]>>

\* recognition.onresult after its await: the assistant entry and the speech
AnswerArrives(n, outcome) ==
  /\ n \in pending
  /\ pending' = pending \ {n}
  /\ transcript' = (IF AnswerEntries(n, outcome) = <<>> THEN transcript
                    ELSE AppendEntry(transcript, AnswerEntries(n, outcome)[1]))
  /\ speechQueue' = (IF ~isHushedRef /\ speechSynthesis THEN speechQueue \cup {n}
                     ELSE speechQueue)
  /\ lastOp' = [Op("AnswerArrives") EXCEPT !.spoke = ~isHushedRef /\ speechSynthesis]
  /\ UNCHANGED <<listening, speechSupported, error, isHushed, isHushedRef, hasRecognition,
                 isHolding, recognitionActive, retryCount, engine, timers, mounted, netErrs, retries>>
  /\ UNCHANGED <<speechSynthesis, hvars, fvars>>

\* the cleanup without `recognitionRef.current = null`
CleanupKeepsRecognition ==
  /\ mounted
  /\ mounted' = FALSE
  /\ IF hasRecognition
     THEN /\ engine' = Stopped(engine)
          /\ speechQueue' = {}
          /\ lastOp' = [Op("Cleanup") EXCEPT !.stop = TRUE]
     ELSE /\ lastOp' = Op("Cleanup")
          /\ UNCHANGED <<engine, speechQueue>>
  /\ UNCHANGED <<listening, speechSupported, error, isHushed, isHushedRef, transcript,
                 hasRecognition, isHolding, recognitionActive, retryCount, timers, pending,
                 netErrs, retries>>
  /\ UNCHANGED <<speechSynthesis, hvars, fvars>>

\* the cleanup of the initialization effect (unmount)
Cleanup ==
  /\ mounted
  /\ mounted' = FALSE
  /\ IF hasRecognition
     THEN /\ engine' = Stopped(engine)
          /\ hasRecognition' = FALSE
          /\ speechQueue' = {}
          /\ lastOp' = [Op("Cleanup") EXCEPT !.stop = TRUE]
     ELSE /\ lastOp' = Op("Cleanup")
          /\ UNCHANGED <<engine, hasRecognition, speechQueue>>
  /\ UNCHANGED <<listening, speechSupported, error, isHushed, isHushedRef, transcript,
                 isHolding, recognitionActive, retryCount, timers, pending, netErrs, retries>>
  /\ UNCHANGED <<speechSynthesis, hvars, fvars>>

Init == InitSession /\ HandlerIdle /\ FunctionsIdle

allvars == <<svars, hvars, fvars>>

\* The session without the mute toggle.  The toggle writes isHushed,
\* isHushedRef and the speech queue only, and no capture handler or timer
\* reads them; SpecMute adds it.
Next ==
  \/ Press
  \/ Release
  \/ OnStart
  \/ OnEnd
  \/ \E kind \in ErrorKinds : OnError(kind)
  \/ RestartTimer
  \/ RetryTimer
  \/ ClearTimer
  \/ \E query \in Queries : OnResult(query)
  \/ \E n \in pending, outcome \in Outcomes : AnswerArrives(n, outcome)
  \/ Cleanup

Spec == Init /\ [][Next]_allvars

NextMute == Next \/ HushToggle

SpecMute == Init /\ [][NextMute]_allvars

\* Pending timer callbacks run and in-flight requests settle: the event loop
\* runs every due callback.
Fairness ==
  /\ WF_allvars(RestartTimer)
  /\ WF_allvars(RetryTimer)
  /\ WF_allvars(ClearTimer)
  /\ WF_allvars(\E n \in pending, outcome \in Outcomes : AnswerArrives(n, outcome))

SpecLive == Spec /\ Fairness

(***************************************************************************)
(* The answer endpoint: scoreChunk, retrieveChunks, handler.               *)
(***************************************************************************)
\* The letters that String.prototype.toLowerCase changes, and what it makes
\* of them, for the characters of this module: Basic Latin (U+0000-007F),
\* Latin-1 Supplement (U+0080-00FF), Greek and Coptic (U+0370-03FF) and the
\* characters of WhiteSpace.  Texts in other scripts are not among the texts
\* of this module.  U+0370-037F are named by their escapes.
UpperCase ==
  <<"A","B","C","D","E","F","G","H","I","J","K","L","M","N","O","P","Q","R","S","T","U","V","W","X","Y","Z",
    "À","Á","Â","Ã","Ä","Å","Æ","Ç","È","É","Ê","Ë","Ì","Í","Î","Ï","Ð","Ñ","Ò","Ó","Ô","Õ","Ö","Ø","Ù","Ú","Û","Ü","Ý","Þ",
    "\\u0370","\\u0372","\\u0376","\\u037f","Ά","Έ","Ή","Ί","Ό","Ύ","Ώ","Α","Β","Γ","Δ","Ε","Ζ","Η","Θ","Ι","Κ","Λ","Μ","Ν","Ξ","Ο","Π","Ρ","Σ","Τ","Υ","Φ","Χ","Ψ","Ω","Ϊ","Ϋ","Ϗ","Ϙ","Ϛ","Ϝ","Ϟ","Ϡ","Ϣ","Ϥ","Ϧ","Ϩ","Ϫ","Ϭ","Ϯ","ϴ","Ϸ","Ϲ","Ϻ","Ͻ","Ͼ","Ͽ">>
LowerCase ==
  <<"a","b","c","d","e","f","g","h","i","j","k","l","m","n","o","p","q","r","s","t","u","v","w","x","y","z",
    "à","á","â","ã","ä","å","æ","ç","è","é","ê","ë","ì","í","î","ï","ð","ñ","ò","ó","ô","õ","ö","ø","ù","ú","û","ü","ý","þ",
    "\\u0371","\\u0373","\\u0377","ϳ","ά","έ","ή","ί","ό","ύ","ώ","α","β","γ","δ","ε","ζ","η","θ","ι","κ","λ","μ","ν","ξ","ο","π","ρ","σ","τ","υ","φ","χ","ψ","ω","ϊ","ϋ","ϗ","ϙ","ϛ","ϝ","ϟ","ϡ","ϣ","ϥ","ϧ","ϩ","ϫ","ϭ","ϯ","θ","ϸ","ϲ","ϻ","\\u037b","\\u037c","\\u037d">>

\* the letters of these blocks with a case and no place in the two tables
OtherCased ==
  {"ª","µ","º","ß","ÿ","ΐ","ΰ","ς","ϐ","ϑ","ϒ","ϓ","ϔ","ϕ","ϖ","ϰ","ϱ","ϵ","ϼ"}

\* a letter with a case (Unicode property Cased) that the final-sigma rule
\* does not skip
Cased(c) ==
  \/ \E i \in DOMAIN UpperCase : c = UpperCase[i] \/ c = LowerCase[i]
  \/ c \in OtherCased

\* the characters that the final-sigma rule skips (Unicode property
\* Case_Ignorable), U+037A among them though it has a case; the grave accent
\* U+0060 and U+0374, U+0375, U+037A are named by their escapes
CaseIgnorable(c) ==
  c \in {"'",".",":","^","\\u0060","¨","­","¯","´","·","¸","\\u0374","\\u0375","\\u037a","΄","΅","·","﻿"}

\* the lower-case letter of each capital of the table
LowerOf ==
  [c \in {UpperCase[i] : i \in DOMAIN UpperCase} |->
     LowerCase[CHOOSE i \in DOMAIN UpperCase : UpperCase[i] = c]]

\* String.prototype.toLowerCase, one character
LowerChar(c) == IF c \in DOMAIN LowerOf THEN LowerOf[c] ELSE c

\* Final_Sigma of Unicode SpecialCasing: the capital sigma at i follows a
\* cased letter and does not precede one, the marks in between skipped
FinalSigma(s, i) ==
  /\ \E j \in 1..(i - 1) :
       Cased(s[j]) /\ \A k \in (j + 1)..(i - 1) : CaseIgnorable(s[k])
  /\ ~\E j \in (i + 1)..Len(s) :
        Cased(s[j]) /\ \A k \in (i + 1)..(j - 1) : CaseIgnorable(s[k])

\* String.prototype.toLowerCase
ToLower(s) ==
  [i \in DOMAIN s |->
     IF s[i] = "Σ" /\ FinalSigma(s, i) THEN "ς" ELSE LowerChar(s[i])]

\* String.prototype.trim
RECURSIVE TrimStart(_)
TrimStart(s) ==
  IF s # <<>> /\ Head(s) \in WhiteSpace THEN TrimStart(Tail(s)) ELSE s

RECURSIVE TrimEnd(_)
TrimEnd(s) ==
  IF s # <<>> /\ s[Len(s)] \in WhiteSpace THEN TrimEnd(SubSeq(s, 1, Len(s) - 1)) ELSE s

Trim(s) == TrimEnd(TrimStart(s))

RECURSIVE SumSeq(_)
SumSeq(ns) == IF ns = <<>> THEN 0 ELSE Head(ns) + SumSeq(Tail(ns))

\* scoreChunk counting only the chunk words that contain the question word
ScoreChunkOneWay(question, chunk) ==
  LET questionWords == Split(ToLower(question), WhiteSpace)
      chunkWords == Split(ToLower(chunk.text), WhiteSpace)
      sectionLower == ToLower(chunk.section)
      Matches(qWord) ==
        Cardinality({i \in DOMAIN chunkWords : Includes(chunkWords[i], qWord)})
  IN  SumSeq([i \in DOMAIN questionWords |->
                IF Len(questionWords[i]) > 2 THEN Matches(questionWords[i]) ELSE 0])
      + SumSeq([i \in DOMAIN questionWords |->
                  IF Includes(sectionLower, questionWords[i]) THEN 2 ELSE 0])

\* scoreChunk
ScoreChunk(question, chunk) ==
  LET questionWords == Split(ToLower(question), WhiteSpace)
      chunkWords == Split(ToLower(chunk.text), WhiteSpace)
      sectionLower == ToLower(chunk.section)
      Matches(qWord) ==
        Cardinality({i \in DOMAIN chunkWords :
                       \/ Includes(chunkWords[i], qWord)
                       \/ Includes(qWord, chunkWords[i])})
  IN  SumSeq([i \in DOMAIN questionWords |->
                IF Len(questionWords[i]) > 2 THEN Matches(questionWords[i]) ELSE 0])
      + SumSeq([i \in DOMAIN questionWords |->
                  IF Includes(sectionLower, questionWords[i]) THEN 2 ELSE 0])

\* Array.prototype.sort((a, b) => b.score - a.score): stable, descending.
\* An item goes after every item already placed whose score is not lower.
RECURSIVE InsertByScore(_, _)
InsertByScore(sorted, item) ==
  IF sorted = <<>> THEN <<item>>
  ELSE IF Head(sorted).score >= item.score
       THEN <<Head(sorted)>> \o InsertByScore(Tail(sorted), item)
       ELSE <<item>> \o sorted

\* a sort that places the items from the front: equal scores end up reversed
RECURSIVE SortByScoreFromFront(_)
SortByScoreFromFront(items) ==
  IF items = <<>> THEN <<>>
  ELSE InsertByScore(SortByScoreFromFront(Tail(items)), Head(items))

RECURSIVE SortByScore(_)
SortByScore(items) ==
  IF items = <<>> THEN <<>>
  ELSE InsertByScore(SortByScore(SubSeq(items, 1, Len(items) - 1)), items[Len(items)])

PositiveScore(item) == item.score > 0

\* retrieveChunks without the score filter
RetrieveChunksUnfiltered(question, chunks, topN) ==
  LET scored == [i \in DOMAIN chunks |->
                   [chunk |-> chunks[i], score |-> ScoreChunk(question, chunks[i])]]
      top == Take(SortByScore(scored), topN)
  IN  [i \in DOMAIN top |-> top[i].chunk]

\* retrieveChunks without slice(0, topN)
RetrieveChunksNoSlice(question, chunks, topN) ==
  LET scored == [i \in DOMAIN chunks |->
                   [chunk |-> chunks[i], score |-> ScoreChunk(question, chunks[i])]]
      top == SortByScore(SelectSeq(scored, PositiveScore))
  IN  [i \in DOMAIN top |-> top[i].chunk]

\* retrieveChunks
RetrieveChunks(question, chunks, topN) ==
  LET scored == [i \in DOMAIN chunks |->
                   [chunk |-> chunks[i], score |-> ScoreChunk(question, chunks[i])]]
      top == Take(SortByScore(SelectSeq(scored, PositiveScore)), topN)
  IN  [i \in DOMAIN top |-> top[i].chunk]

\* the topN the handler passes
TopN == 5

CatanBase == <<"c","a","t","a","n","-","b","a","s","e">>
OtherGame == <<"r","i","s","k">>
UnknownGame == <<"u","n","k","n","o","w","n","-","g","a","m","e">>

\* src/rules/catanRulebookChunks.json as parsed: chunks of two games
AllChunks == <<
  [id |-> "c1", gameId |-> CatanBase, page |-> 3, section |-> <<"B","u","i","l","d","i","n","g"," ","R","o","a","d","s">>,
   text |-> <<"A"," ","r","o","a","d"," ","c","o","s","t","s"," ","o","n","e"," ","b","r","i","c","k"," ","a","n","d"," ","o","n","e"," ","w","o","o","d",".">>],
  [id |-> "c2", gameId |-> CatanBase, page |-> 5, section |-> <<"T","r","a","d","i","n","g">>,
   text |-> <<"P","l","a","y","e","r","s"," ","m","a","y"," ","t","r","a","d","e"," ","r","e","s","o","u","r","c","e"," ","c","a","r","d","s"," ","w","i","t","h"," ","t","h","e"," ","b","a","n","k",".">>],
  [id |-> "r1", gameId |-> OtherGame, page |-> 7, section |-> <<"R","o","b","b","e","r">>,
   text |-> <<"T","h","e"," ","r","o","b","b","e","r"," ","b","l","o","c","k","s"," ","a"," ","r","o","a","d",".">>]
>>

\* req.body.gameId; the empty text stands for a missing gameId
GameIds == {CatanBase, OtherGame, UnknownGame, <<>>}

\* req.body.question: a string, or a value that is not a string
Questions == {
  [isString |-> TRUE, text |-> <<"H","o","w"," ","d","o"," ","I"," ","b","u","i","l","d"," ","a"," ","r","o","a","d","?">>],
  [isString |-> TRUE, text |-> <<"r","o","b","b","e","r">>],
  [isString |-> TRUE, text |-> <<" ","t","r","a","d","e">>],
  [isString |-> TRUE, text |-> <<"r","e","s","o","u","r","c","e"," ","t","r","a","d","e">>],
  [isString |-> TRUE, text |-> <<" ">>],
  [isString |-> TRUE, text |-> <<>>],
  [isString |-> FALSE, text |-> <<>>]
}

\* choices[0].message.content of a parsed model response
Completions == {<<" ","R","o","a","d","s"," ","c","o","s","t"," ","b","r","i","c","k"," ","a","n","d"," ","w","o","o","d","."," ">>, <<"I"," ","a","m"," ","n","o","t"," ","s","u","r","e",".">>, <<" ", "\n">>}

\* How the model call ends: fetch rejects ("network"), a non-success status
\* ("status"), a body that is not JSON ("badjson"), JSON null ("null"), JSON
\* with no choices ("nochoices"), or JSON with a first completion.
ModelReplies ==
  [kind : {"network", "status", "badjson", "null", "nochoices"}, content : {<<>>}]
    \cup [kind : {"content"}, content : Completions]

MethodNotAllowed == <<"M","e","t","h","o","d"," ","n","o","t"," ","a","l","l","o","w","e","d">>
QuestionRequired == <<"Q","u","e","s","t","i","o","n"," ","i","s"," ","r","e","q","u","i","r","e","d">>
GameIdRequired == <<"G","a","m","e"," ","I","D"," ","i","s"," ","r","e","q","u","i","r","e","d">>
LoadTrouble == <<"I"," ","h","a","d"," ","t","r","o","u","b","l","e"," ","l","o","a","d","i","n","g"," ","t","h","e"," ","r","u","l","e","b","o","o","k","."," ","P","l","e","a","s","e"," ","t","r","y"," ","a","g","a","i","n",".">>
NoRulebookPrefix == <<"N","o"," ","r","u","l","e","b","o","o","k"," ","f","o","u","n","d"," ","f","o","r"," ","g","a","m","e",":"," ">>
NotFoundInExcerpts == <<"I"," ","c","o","u","l","d","n","'","t"," ","f","i","n","d"," ","r","e","l","e","v","a","n","t"," ","i","n","f","o","r","m","a","t","i","o","n"," ","i","n"," ","t","h","e"," ","r","u","l","e","b","o","o","k"," ","e","x","c","e","r","p","t","s"," ","f","o","r"," ","t","h","a","t"," ","q","u","e","s","t","i","o","n","."," ","P","l","e","a","s","e"," ","c","h","e","c","k"," ","t","h","e"," ","p","h","y","s","i","c","a","l"," ","r","u","l","e","b","o","o","k"," ","o","r"," ","t","r","y"," ","r","e","p","h","r","a","s","i","n","g"," ","y","o","u","r"," ","q","u","e","s","t","i","o","n",".">>
EngineUnavailable == <<"T","h","e"," ","r","u","l","e","s"," ","e","n","g","i","n","e"," ","i","s"," ","c","u","r","r","e","n","t","l","y"," ","u","n","a","v","a","i","l","a","b","l","e","."," ","P","l","e","a","s","e"," ","c","h","e","c","k"," ","y","o","u","r"," ","c","o","n","n","e","c","t","i","o","n"," ","o","r"," ","t","r","y"," ","a","g","a","i","n"," ","l","a","t","e","r",".">>
TroubleReaching == <<"I"," ","h","a","d"," ","t","r","o","u","b","l","e"," ","r","e","a","c","h","i","n","g"," ","t","h","e"," ","r","u","l","e","s"," ","e","n","g","i","n","e","."," ","P","l","e","a","s","e"," ","c","h","e","c","k"," ","y","o","u","r"," ","c","o","n","n","e","c","t","i","o","n"," ","o","r"," ","t","r","y"," ","a","g","a","i","n",".">>
CouldNotGenerate == <<"I"," ","c","o","u","l","d","n","'","t"," ","g","e","n","e","r","a","t","e"," ","a","n"," ","a","n","s","w","e","r","."," ","P","l","e","a","s","e"," ","t","r","y"," ","a","g","a","i","n",".">>
TroubleProcessing == <<"I"," ","h","a","d"," ","t","r","o","u","b","l","e"," ","p","r","o","c","e","s","s","i","n","g"," ","y","o","u","r"," ","q","u","e","s","t","i","o","n","."," ","P","l","e","a","s","e"," ","t","r","y"," ","a","g","a","i","n",".">>

Reply(status, answer, sources) == [status |-> status, answer |-> answer, sources |-> sources]

\* the partition lookup without the gameId filter
PartitionUnfiltered(gameId) == AllChunks

\* the partition lookup that serves the one rulebook the file is named after
PartitionOfCatan(gameId) == SelectSeq(AllChunks, LAMBDA chunk : chunk.gameId = CatanBase)

\* const chunks of the handler: the partition of gameId
Partition(gameId) == SelectSeq(AllChunks, LAMBDA chunk : chunk.gameId = gameId)

\* sources that name the best chunk only
SourcesOfBest(chunks) ==
  [i \in DOMAIN Take(chunks, 1) |-> [page |-> chunks[i].page, section |-> chunks[i].section]]

\* const sources of the handler
Sources(chunks) == [i \in DOMAIN chunks |-> [page |-> chunks[i].page, section |-> chunks[i].section]]

\* `!question || typeof question !== 'string'`
QuestionMissing(question) == ~question.isString \/ question.text = <<>>

\* the handler naming the retrieved chunks in its missing-credential reply
EarlyReplyWithCandidates(r) ==
  IF r.method # "POST" THEN Reply(405, MethodNotAllowed, <<>>)
  ELSE IF ~r.hasBody THEN Reply(500, TroubleProcessing, <<>>)
  ELSE IF QuestionMissing(r.question) THEN Reply(400, QuestionRequired, <<>>)
  ELSE IF r.gameId = <<>> THEN Reply(400, GameIdRequired, <<>>)
  ELSE IF ~r.loadOk THEN Reply(500, LoadTrouble, <<>>)
  ELSE IF Partition(r.gameId) = <<>>
       THEN Reply(404, NoRulebookPrefix \o r.gameId, <<>>)
  ELSE IF RetrieveChunks(r.question.text, Partition(r.gameId), TopN) = <<>>
       THEN Reply(200, NotFoundInExcerpts, <<>>)
  ELSE IF ~r.hasKey
       THEN Reply(200, EngineUnavailable,
                  Sources(RetrieveChunks(r.question.text, Partition(r.gameId), TopN)))
  ELSE NoResponse

\* The handler up to its first return or its await of the model call:
\* the reply it sends there, or NoResponse when it goes on to call the model.
EarlyReply(r) ==
  IF r.method # "POST" THEN Reply(405, MethodNotAllowed, <<>>)
  ELSE IF ~r.hasBody THEN Reply(500, TroubleProcessing, <<>>)
  ELSE IF QuestionMissing(r.question) THEN Reply(400, QuestionRequired, <<>>)
  ELSE IF r.gameId = <<>> THEN Reply(400, GameIdRequired, <<>>)
  ELSE IF ~r.loadOk THEN Reply(500, LoadTrouble, <<>>)
  ELSE IF Partition(r.gameId) = <<>>
       THEN Reply(404, NoRulebookPrefix \o r.gameId, <<>>)
  ELSE IF RetrieveChunks(r.question.text, Partition(r.gameId), TopN) = <<>>
       THEN Reply(200, NotFoundInExcerpts, <<>>)
  ELSE IF ~r.hasKey THEN Reply(200, EngineUnavailable, <<>>)
  ELSE NoResponse

\* the request passes the validation and the rulebook loads
ReachesLookup(r) ==
  /\ r.method = "POST"
  /\ r.hasBody
  /\ ~QuestionMissing(r.question)
  /\ r.gameId # <<>>
  /\ r.loadOk

\* handler, from the request to its first return or to the model call
Receive(r) ==
  /\ hpc \in {"idle", "done"}
  /\ req' = r
  /\ retrieved' = (ReachesLookup(r) /\ Partition(r.gameId) # <<>>)
  /\ relevantChunks' = (IF ReachesLookup(r) /\ Partition(r.gameId) # <<>>
                        THEN RetrieveChunks(r.question.text, Partition(r.gameId), TopN)
                        ELSE <<>>)
  /\ response' = EarlyReply(r)
  /\ modelCalls' = (IF EarlyReply(r) = NoResponse THEN 1 ELSE 0)
  /\ hpc' = (IF EarlyReply(r) = NoResponse THEN "awaitModel" ELSE "done")
  /\ modelReply' = NoModelReply
  /\ clientResult' = NoResult
  /\ UNCHANGED <<svars, fvars>>

\* the completion extraction without its `|| "I couldn't ..."` fallback
CompletionTextNoFallback(reply) ==
  IF reply.kind = "content" THEN Trim(reply.content) ELSE CouldNotGenerate

\* `openaiResponse.choices?.[0]?.message?.content?.trim() || "I couldn't ..."`
CompletionText(reply) ==
  IF reply.kind = "content" /\ Trim(reply.content) # <<>>
  THEN Trim(reply.content)
  ELSE CouldNotGenerate

\* the handler without its `!openaiRes.ok` check: the body of a non-success
\* response is read like a completion payload
ModelReplyNoStatusCheck(reply, chunks) ==
  CASE reply.kind \in {"network", "badjson"} -> Reply(200, TroubleReaching, <<>>)
    [] reply.kind = "null" -> Reply(500, TroubleProcessing, <<>>)
    [] reply.kind = "status" -> Reply(200, CouldNotGenerate, Sources(chunks))
    [] OTHER -> Reply(200, CompletionText(reply), Sources(chunks))

\* what the handler sends once the model call has ended
ModelReply(reply, chunks) ==
  CASE reply.kind \in {"network", "status", "badjson"} -> Reply(200, TroubleReaching, <<>>)
    [] reply.kind = "null" -> Reply(500, TroubleProcessing, <<>>)
    [] OTHER -> Reply(200, CompletionText(reply), Sources(chunks))

\* handler, from the end of the model call to its response
ModelReturns(reply) ==
  /\ hpc = "awaitModel"
  /\ response' = ModelReply(reply, relevantChunks)
  /\ hpc' = "done"
  /\ modelReply' = reply
  /\ UNCHANGED <<req, relevantChunks, modelCalls, retrieved, clientResult>>
  /\ UNCHANGED <<svars, fvars>>

ClientApiTrouble == <<"I"," ","c","o","u","l","d","n","'","t"," ","r","e","a","c","h"," ","t","h","e"," ","r","u","l","e","s"," ","e","n","g","i","n","e","."," ","P","l","e","a","s","e"," ","t","r","y"," ","a","g","a","i","n",".">>
ClientNetworkTrouble == <<"I"," ","c","o","u","l","d","n","'","t"," ","r","e","a","c","h"," ","t","h","e"," ","r","u","l","e","s"," ","e","n","g","i","n","e","."," ","P","l","e","a","s","e"," ","c","h","e","c","k"," ","y","o","u","r"," ","c","o","n","n","e","c","t","i","o","n"," ","a","n","d"," ","t","r","y"," ","a","g","a","i","n",".">>

\* How the response travels back to the client: "delivered", "failed" (fetch
\* rejects) or "unreadable" (the body that arrives is not JSON).
Transports == {"delivered", "failed", "unreadable"}

\* askRulebook: how the call settles for a transport and the response sent
AskRulebook(transport, resp) ==
  IF transport = "failed"
  THEN [settled |-> "resolved", answer |-> ClientNetworkTrouble, sources |-> <<>>]
  ELSE IF resp.status \notin 200..299
  THEN [settled |-> "resolved", answer |-> ClientApiTrouble, sources |-> <<>>]
  ELSE IF transport = "unreadable"
  THEN \* `return res.json()` is not awaited: its rejection passes the catch
       [settled |-> "rejected", answer |-> <<>>, sources |-> <<>>]
  ELSE [settled |-> "resolved", answer |-> resp.answer, sources |-> resp.sources]

\* the askRulebook call that sent the request settles
ClientSettles(transport) ==
  /\ hpc = "done"
  /\ clientResult = NoResult
  /\ clientResult' = AskRulebook(transport, response)
  /\ UNCHANGED <<hpc, req, relevantChunks, response, modelCalls, retrieved, modelReply>>
  /\ UNCHANGED <<svars, fvars>>

\* the requests: method, body, and what the handler finds in its environment
\* (whether the chunk file loads, whether OPENAI_API_KEY is set)
Requests ==
  [method : {"POST", "GET"}, hasBody : BOOLEAN, gameId : GameIds,
   question : Questions, loadOk : BOOLEAN, hasKey : BOOLEAN]

InitHandler == InitSessionIn("ok") /\ speechSynthesis /\ HandlerIdle /\ FunctionsIdle

NextHandler ==
  \/ \E r \in Requests : Receive(r)
  \/ \E reply \in ModelReplies : ModelReturns(reply)
  \/ \E transport \in Transports : ClientSettles(transport)

SpecHandler == InitHandler /\ [][NextHandler]_allvars

(***************************************************************************)
(* The functions applied on their own: the sentence limit of onresult and  *)
(* retrieveChunks.                                                         *)
(***************************************************************************)
\* the characters of the answer texts: a letter, two sentence ends, a blank
AnswerAlphabet == {"a", ".", "?", " "}

AnswerTexts == UNION {[1..n -> AnswerAlphabet] : n \in 0..MaxAnswerLen}

\* chunks as retrieveChunks gets them
ChunkPool == <<
  [id |-> "p1", gameId |-> CatanBase, page |-> 1, section |-> <<"R","o","a","d","s">>,
   text |-> <<"A"," ","r","o","a","d"," ","c","o","s","t","s"," ","b","r","i","c","k",".">>],
  [id |-> "p2", gameId |-> CatanBase, page |-> 2, section |-> <<"T","r","a","d","e">>,
   text |-> <<"T","r","a","d","e"," ","a"," ","r","o","a","d"," ","c","a","r","d",".">>],
  [id |-> "p3", gameId |-> CatanBase, page |-> 3, section |-> <<"R","o","b","b","e","r">>,
   text |-> <<"T","h","e"," ","r","o","b","b","e","r"," ","b","l","o","c","k","s"," ","a"," ","r","o","a","d",".">>],
  [id |-> "p4", gameId |-> CatanBase, page |-> 4, section |-> <<"P","o","r","t","s">>,
   text |-> <<"T","r","a","d","e"," ","a","t"," ","a"," ","p","o","r","t",".">>]
>>

\* the collections: up to MaxChunks different chunks of the pool, in any order
ChunkLists ==
  LET picks == UNION {[1..n -> DOMAIN ChunkPool] : n \in 0..MaxChunks}
      Different(f) == \A i, j \in DOMAIN f : i # j => f[i] # f[j]
  IN  {[i \in DOMAIN f |-> ChunkPool[f[i]]] : f \in {g \in picks : Different(g)}}

RetrieveQuestions == {
  <<"r","o","a","d">>,
  <<"T","r","a","d","e"," ","r","o","a","d">>,
  <<"t","h","e"," ","r","o","b","b","e","r">>,
  <<" ","p","o","r","t","s">>,
  <<"d","i","c","e">>
}

TopNs == (0..MaxTopN) \cup {TopN}

\* chunks of a "Building Roads" section whose text mentions brick and wood
BuildingRoadsChunks == {AllChunks[1],
  [id |-> "b2", gameId |-> CatanBase, page |-> 3, section |-> <<"B","u","i","l","d","i","n","g"," ","R","o","a","d","s">>,
   text |-> <<"C","o","s","t","s"," ","b","r","i","c","k"," ","a","n","d"," ","w","o","o","d",".">>]}

\* chunks of a "Trading" section whose text has neither "road" nor "build"
TradingChunks == {AllChunks[2],
  [id |-> "t2", gameId |-> CatanBase, page |-> 5, section |-> <<"T","r","a","d","i","n","g">>,
   text |-> <<"T","r","a","d","e"," ","a"," ","c","a","r","d"," ","a","t"," ","a"," ","p","o","r","t",".">>],
  [id |-> "t3", gameId |-> CatanBase, page |-> 5, section |-> <<"T","r","a","d","i","n","g">>,
   text |-> <<"A"," ","p","o","r","t"," ","o","r"," ","a"," ","b","a","n","k"," ","m","a","y"," ","t","r","a","d","e"," ","a"," ","c","a","r","d"," ","f","o","r"," ","a"," ","c","a","r","d",".">>],
  [id |-> "t4", gameId |-> CatanBase, page |-> 5, section |-> <<"T","r","a","d","i","n","g">>,
   text |-> <<"P","l","a","y","e","r","s"," ","s","w","a","p"," ","c","a","r","d","s",".">>]}

\* the questions and chunks given to scoreChunk
ScoreQuestions == RetrieveQuestions \cup {q.text : q \in {x \in Questions : x.isString}}

ScoreChunks ==
  {ChunkPool[i] : i \in DOMAIN ChunkPool} \cup {AllChunks[i] : i \in DOMAIN AllChunks}
    \cup BuildingRoadsChunks \cup TradingChunks

Calls ==
  [fn : {"limitSentences", "assistantText"}, answer : AnswerTexts]
    \cup [fn : {"retrieveChunks"}, question : RetrieveQuestions,
          chunks : ChunkLists, topN : TopNs]
    \cup [fn : {"scoreChunk"}, question : ScoreQuestions, chunk : ScoreChunks]

InitFunctions ==
  /\ InitSessionIn("ok")
  /\ speechSynthesis
  /\ HandlerIdle
  /\ call \in Calls
  /\ returned = NotReturned

\* the sentence limit of onresult applied to an answer text
CallLimitSentences ==
  /\ call.fn = "limitSentences"
  /\ ~returned.done
  /\ returned' = Returned(LimitSentences(call.answer))
  /\ UNCHANGED <<call, svars, hvars>>

\* the text onresult puts into the assistant entry for a resolved call
CallAssistantText ==
  /\ call.fn = "assistantText"
  /\ ~returned.done
  /\ returned' = Returned(AssistantText([ok |-> TRUE, answer |-> call.answer]))
  /\ UNCHANGED <<call, svars, hvars>>

\* retrieveChunks(question, chunks, topN)
CallRetrieveChunks ==
  /\ call.fn = "retrieveChunks"
  /\ ~returned.done
  /\ returned' = Returned(RetrieveChunks(call.question, call.chunks, call.topN))
  /\ UNCHANGED <<call, svars, hvars>>

\* scoreChunk(question, chunk)
CallScoreChunk ==
  /\ call.fn = "scoreChunk"
  /\ ~returned.done
  /\ returned' = Returned(ScoreChunk(call.question, call.chunk))
  /\ UNCHANGED <<call, svars, hvars>>

NextFunctions ==
  \/ CallLimitSentences
  \/ CallAssistantText
  \/ CallRetrieveChunks
  \/ CallScoreChunk

SpecFunctions == InitFunctions /\ [][NextFunctions]_allvars

(***************************************************************************)
(* Claims about the voice session.                                         *)
(***************************************************************************)
\* onend has just run with the button held
HoldingEnd == lastOp.op = "OnEnd" /\ isHolding /\ hasRecognition

\* the restart timer has just requested start on the capability
RestartRequested == lastOp.op = "RestartTimer" /\ lastOp.start # "none"

\* C1: whenever the capability ends (onend) while isHolding is true, the
\* restart timer later requests start on the capability, with no new press,
\* unless the button was released or the session torn down by then.
C1_AutoRestart == HoldingEnd ~> (RestartRequested \/ ~isHolding \/ ~hasRecognition)

\* C1 witness: after a finalized utterance and its assistant entry, onend's
\* timer has restarted capture while the button was held throughout.
C1_Witness ==
  /\ RestartRequested
  /\ lastOp.start = "ok"
  /\ ~lastOp.stale
  /\ isHolding
  /\ Len(transcript) = 2
  /\ transcript[2].type = "assistant"

\* C2 as stated: after the third consecutive network error of a hold the
\* session is in the fatal error state.
C2_FatalAfterThird ==
  (lastOp.op = "OnError" /\ netErrs = maxRetries) =>
    (~isHolding /\ error = NetFatalMsg)

\* C2 amended: each of the first three consecutive network errors of a hold
\* (no start confirmation in between) that arrive while isHolding is true
\* schedules a retry and keeps isHolding; the fourth clears isHolding and
\* retryCount, shows the guidance message and schedules nothing.
C2_FatalAfterFourth ==
  [][(lastOp'.op = "OnError" /\ netErrs' >= 1 /\ isHolding) =>
       IF netErrs' <= maxRetries
       THEN /\ isHolding'
            /\ retryCount' = netErrs'
            /\ error' = RetryMessage(netErrs')
            /\ timers' = timers \o <<Timer("retry"), Timer("clear")>>
       ELSE /\ ~isHolding'
            /\ retryCount' = 0
            /\ error' = NetFatalMsg
            /\ timers' = timers]_allvars

\* C2 witness: the fourth consecutive network error has put the session into
\* the fatal state.
C2_Witness ==
  /\ lastOp.op = "OnError"
  /\ netErrs = maxRetries + 1
  /\ ~isHolding
  /\ error = NetFatalMsg

\* C3: a release clears isHolding and, when capture is requested (start not
\* yet confirmed) or listening, requests stop on the capability.
C3_ReleaseStops ==
  [][lastOp'.op = "Release" =>
       /\ ~isHolding'
       /\ (engine \in {"starting", "active"} => lastOp'.stop)]_allvars

\* C4: no delayed start that was scheduled before a release requests start
\* after that release.
C4_ReleaseVoidsTimers == lastOp.stale => lastOp.start = "none"

\* C5: a start attempt that the capability rejects as already active counts
\* as a confirm: no exception escapes, isHolding is not cleared and no error
\* message is set.
C5_StartIdempotent ==
  [][lastOp'.start = "threw" =>
       /\ ~lastOp'.escaped
       /\ (isHolding => isHolding')
       /\ error' \in {error, NoError}]_allvars

\* C6: at most one answer-pipeline call is in flight at any time.
C6_NoPipelining == Cardinality(pending) <= 1

\* the positions of the entries of a role for utterance n
EntriesOf(t, role, n) == {i \in DOMAIN t : t[i].type = role /\ t[i].utt = n}

\* C7: the transcript only grows at its end, and every assistant entry comes
\* after the user entry of the utterance it answers.
C7_TranscriptOrder ==
  [][/\ Len(transcript') >= Len(transcript)
     /\ SubSeq(transcript', 1, Len(transcript)) = transcript
     /\ \A i \in DOMAIN transcript' :
          transcript'[i].type = "assistant" =>
            \E j \in 1..(i - 1) :
              /\ transcript'[j].type = "user"
              /\ transcript'[j].utt = transcript'[i].utt]_allvars

\* C7 witness: two utterances were finalized before either answer arrived,
\* and both answers are in the transcript.
C7_Witness ==
  /\ Len(transcript) = 4
  /\ transcript[1].type = "user"
  /\ transcript[2].type = "user"
  /\ transcript[3].type = "assistant"
  /\ transcript[4].type = "assistant"

\* C8: an utterance whose answer request is in flight has no assistant entry
\* yet, one whose request has settled (resolved or rejected) has exactly one,
\* and every request in flight leads to that entry.
C8_OneAnswerEach ==
  /\ [](\A n \in 1..UttCount :
          Cardinality(EntriesOf(transcript, "assistant", n))
            = (IF n \in pending THEN 0 ELSE 1))
  /\ \A n \in 1..MaxUtterances :
       (n \in pending) ~>
         (n \notin pending /\ Cardinality(EntriesOf(transcript, "assistant", n)) = 1)

\* C8 witness: a rejected request has left its one assistant entry.
C8_Witness ==
  /\ pending = {}
  /\ \E i \in DOMAIN transcript :
       /\ transcript[i].type = "assistant"
       /\ transcript[i].text = ErrorText

\* C21: a hold gets at most maxRetries retries from network errors: the
\* network error after the third retry ends the hold instead of scheduling
\* a fourth.
C21_RetryBounded == retries <= maxRetries

\* the guidance messages of the permission and the device error
CaptureGuidance(kind) ==
  IF kind = "not-allowed" THEN PermissionDeniedMsg ELSE MicNotFoundMsg

\* C22: onerror with not-allowed or audio-capture clears isHolding, shows the
\* guidance message and schedules nothing; and while isHolding is false no
\* step but a press requests start, and onend schedules no restart.
C22_FatalCaptureErrors ==
  [][/\ \A kind \in {"not-allowed", "audio-capture"} :
          OnError(kind) =>
            /\ ~isHolding'
            /\ error' = CaptureGuidance(kind)
            /\ timers' = timers
            /\ lastOp'.start = "none"
     /\ (~isHolding /\ lastOp'.op # "Press") =>
          /\ lastOp'.start = "none"
          /\ ~isHolding'
          /\ (lastOp'.op = "OnEnd" => timers' = timers)]_allvars

\* C22 witness: after a permission error ended the hold, the restart timer
\* of an earlier onend has run without requesting start.
C22_Witness ==
  /\ lastOp.op = "RestartTimer"
  /\ lastOp.start = "none"
  /\ ~lastOp.stale
  /\ ~isHolding
  /\ error = PermissionDeniedMsg

\* C23: a press while the capability is unavailable sets one of the two
\* capability-unavailable messages, requests no start and begins no hold.
C23_UnavailableNoStart ==
  [][(lastOp'.op = "Press" /\ (~speechSupported \/ ~hasRecognition)) =>
       /\ error' \in {NotInitializedMsg, NotAvailableMsg}
       /\ lastOp'.start = "none"
       /\ ~isHolding'
       /\ engine' = "idle"]_allvars

\* C23 witness: a press in an unsupported environment has replaced the
\* message of the initialization by the capability-unavailable message.
C23_Witness ==
  /\ lastOp.op = "Press"
  /\ ~speechSupported
  /\ error = NotInitializedMsg
  /\ engine = "idle"

\* C24 as stated: a release leaves the calls in flight and the transcript as
\* they are; an answer that arrives while the button is not held appends its
\* assistant entry and is spoken unless muted; and while the button is not
\* held no step but a press requests start.
C24_ReleaseKeepsAnswer ==
  [][/\ lastOp'.op = "Release" => (pending' = pending /\ transcript' = transcript)
     /\ (lastOp'.op = "AnswerArrives" /\ ~isHolding) =>
          /\ Len(transcript') = Len(transcript) + 1
          /\ transcript'[Len(transcript')].type = "assistant"
          /\ transcript'[Len(transcript')].utt \in pending \ pending'
          /\ lastOp'.spoke = ~isHushed
          /\ engine' = engine
     /\ (~isHolding /\ lastOp'.op # "Press") => lastOp'.start = "none"]_allvars

\* C24: a release leaves the calls in flight and the transcript as they
\* are; an answer that arrives while the button is not held appends its
\* assistant entry and is spoken exactly when the session is not muted and
\* the window has speechSynthesis; and while the button is not held no step
\* but a press requests start.
C24_ReleaseKeepsAnswerSpoken ==
  [][/\ lastOp'.op = "Release" => (pending' = pending /\ transcript' = transcript)
     /\ (lastOp'.op = "AnswerArrives" /\ ~isHolding) =>
          /\ Len(transcript') = Len(transcript) + 1
          /\ transcript'[Len(transcript')].type = "assistant"
          /\ transcript'[Len(transcript')].utt \in pending \ pending'
          /\ lastOp'.spoke = (~isHushed /\ speechSynthesis)
          /\ engine' = engine
     /\ (~isHolding /\ lastOp'.op # "Press") => lastOp'.start = "none"]_allvars

\* C24 witness: the answer has arrived and was spoken after a release that
\* left a restart timer behind.
C24_Witness ==
  /\ lastOp.op = "AnswerArrives"
  /\ lastOp.spoke
  /\ ~isHolding
  /\ Len(transcript) = 2
  /\ \E i \in DOMAIN timers : timers[i].stale

\* a fatal capture error's guidance message is shown and the hold is over
FatalShown == ~isHolding /\ error \in {MicNotFoundMsg, PermissionDeniedMsg, NetFatalMsg}

\* C25: once a fatal capture error shows its guidance message, no step but a
\* press changes the message or sets isHolding.
C25_ErrorTerminal ==
  [][(FatalShown /\ lastOp'.op # "Press") => (error' = error /\ ~isHolding')]_allvars

\* C26: the mute toggle flips isHushed and cancels the speech output, leaves
\* the capture state, the error message and the transcript as they are, and
\* requests neither start nor stop.
C26_MuteFrame ==
  [][lastOp'.op = "HushToggle" =>
       /\ isHushed' = ~isHushed
       /\ speechQueue' = {}
       /\ UNCHANGED <<isHolding, retryCount, recognitionActive, listening, error,
                      transcript, engine, timers, pending>>
       /\ lastOp'.start = "none"
       /\ ~lastOp'.stop]_allvars

\* C26 witness: the user has muted while holding the button and listening,
\* with an answer in flight.
C26_Witness ==
  /\ lastOp.op = "HushToggle"
  /\ isHushed
  /\ isHolding
  /\ listening
  /\ pending # {}

\* C27 as stated: when an assistant entry is appended, speech output is
\* requested for it exactly when isHushed is false.
C27_SpeechFollowsMute ==
  [][lastOp'.op = "AnswerArrives" =>
       /\ lastOp'.spoke = ~isHushed
       /\ speechQueue' = (IF isHushed THEN speechQueue
                          ELSE speechQueue \cup (pending \ pending'))]_allvars

\* C27: when an assistant entry is appended, speech output is requested for
\* it exactly when isHushed is false and the window has speechSynthesis; an
\* answer that completes while muted is never spoken.
C27_SpeechFollowsMuteWhereSpeech ==
  [][lastOp'.op = "AnswerArrives" =>
       /\ lastOp'.spoke = (~isHushed /\ speechSynthesis)
       /\ speechQueue' = (IF ~isHushed /\ speechSynthesis
                          THEN speechQueue \cup (pending \ pending')
                          ELSE speechQueue)
       /\ isHushed => (~lastOp'.spoke /\ speechQueue' = speechQueue)]_allvars

\* C27 witness: in a window that has speechSynthesis an answer has arrived
\* while muted and was not spoken.
C27_Witness ==
  /\ lastOp.op = "AnswerArrives"
  /\ speechSynthesis
  /\ isHushed
  /\ ~lastOp.spoke
  /\ speechQueue = {}
  /\ \E i \in DOMAIN transcript : transcript[i].type = "assistant"

\* C28: onerror with no-speech or aborted clears the error message, ends
\* listening and leaves isHolding and retryCount as they are.
C28_BenignErrors ==
  [][\A kind \in {"no-speech", "aborted"} :
       OnError(kind) =>
         /\ error' = NoError
         /\ ~listening'
         /\ isHolding' = isHolding
         /\ retryCount' = retryCount
         /\ timers' = timers]_allvars

\* C29: retryCount is within 0..maxRetries.
C29_RetryCountBounded == retryCount \in 0..maxRetries

\* C29 witness: the third retry of a hold is scheduled.
C29_Witness ==
  /\ retryCount = maxRetries
  /\ isHolding
  /\ error = RetryMessage(maxRetries)

\* C30: onstart makes the session listening, resets retryCount and clears
\* the error message.
C30_StartConfirmed ==
  [][lastOp'.op = "OnStart" =>
       /\ listening'
       /\ recognitionActive'
       /\ retryCount' = 0
       /\ error' = NoError]_allvars

\* C30 witness: the start that a retry requested is confirmed while the
\* retry message's timer is still pending.
C30_Witness ==
  /\ lastOp.op = "OnStart"
  /\ listening
  /\ retryCount = 0
  /\ error = NoError
  /\ retries > 0
  /\ \E i \in DOMAIN timers : timers[i].kind = "clear"

\* C34: start is never called on the capability while a start request is
\* unconfirmed or while the capability is active.
C34_OneStartOutstanding ==
  [][lastOp'.start # "none" => engine \notin {"starting", "active"}]_allvars

\* C35: a timer callback calls start only while isHolding is true, isHolding
\* becomes true by a press only, and so without a new press nothing calls
\* start once isHolding is false.
C35_TimerStartsWhileHolding ==
  [][/\ (lastOp'.op \in {"RestartTimer", "RetryTimer"} /\ lastOp'.start # "none")
          => isHolding
     /\ (~isHolding /\ isHolding') => lastOp'.op = "Press"
     /\ (~isHolding /\ lastOp'.start # "none") => lastOp'.op = "Press"]_allvars

\* C35 witness: the retry timer has called start during a hold.
C35_Witness ==
  /\ lastOp.op = "RetryTimer"
  /\ lastOp.start = "ok"
  /\ isHolding
  /\ engine = "starting"

\* C36: after the cleanup nothing calls start: onend schedules no restart,
\* and a restart or retry timer that fires leaves the capability, isHolding
\* and the message as they are.
C36_NoStartAfterCleanup ==
  [][~mounted =>
       /\ lastOp'.start = "none"
       /\ engine' \notin {"starting", "active"} \/ engine' = engine
       /\ lastOp'.op = "OnEnd" => timers' = timers
       /\ lastOp'.op \in {"RestartTimer", "RetryTimer"} =>
            /\ engine' = engine
            /\ isHolding' = isHolding
            /\ error' = error]_allvars

\* C36 witness: a restart timer scheduled during the hold has fired after the
\* cleanup, isHolding still true, and has not called start.
C36_Witness ==
  /\ ~mounted
  /\ isHolding
  /\ lastOp.op = "RestartTimer"
  /\ lastOp.start = "none"
  /\ engine = "idle"

\* C37: after the cleanup no answer is handed to the speech output.
C37_NoSpeechAfterCleanup ==
  [][~mounted => ~lastOp'.spoke]_allvars

\* C38: every assistant entry directly follows the user entry of the
\* utterance it answers.
C38_StrictAlternation ==
  \A i \in DOMAIN transcript :
    transcript[i].type = "assistant" =>
      /\ i > 1
      /\ transcript[i - 1].type = "user"
      /\ transcript[i - 1].utt = transcript[i].utt

(***************************************************************************)
(* Claims about the answer endpoint.                                       *)
(***************************************************************************)
\* the handler has taken up a request that reaches the partition lookup
Serving == hpc # "idle" /\ ReachesLookup(req)

\* no chunk of the request's partition scores above zero for its question
NothingScores ==
  \A i \in DOMAIN Partition(req.gameId) :
    ScoreChunk(req.question.text, Partition(req.gameId)[i]) <= 0

\* C9: for a request that reaches retrieval (valid, rulebook loaded, partition
\* not empty), when no chunk of the partition scores above zero the handler
\* has answered with the not-found message and empty sources without calling
\* the model; and the model is called only with at least one retrieved chunk.
C9_GroundingGuard ==
  /\ (Serving /\ Partition(req.gameId) # <<>> /\ NothingScores) =>
       /\ hpc = "done"
       /\ response = Reply(200, NotFoundInExcerpts, <<>>)
       /\ modelCalls = 0
  /\ modelCalls > 0 =>
       /\ retrieved
       /\ relevantChunks # <<>>
       /\ ~NothingScores

\* C9 witness: a question that matches only another game's chunk got the
\* not-found answer.
C9_Witness ==
  /\ Serving
  /\ Partition(req.gameId) # <<>>
  /\ NothingScores
  /\ \E i \in DOMAIN AllChunks : ScoreChunk(req.question.text, AllChunks[i]) > 0
  /\ response = Reply(200, NotFoundInExcerpts, <<>>)

\* C10: for a request that reaches the lookup and whose gameId has no chunk
\* in the store, the handler has answered 404 with the no-rulebook message
\* and empty sources, and neither retrieval nor the model call has run.
C10_NoRulebook ==
  (Serving /\ \A i \in DOMAIN AllChunks : AllChunks[i].gameId # req.gameId) =>
    /\ hpc = "done"
    /\ response = Reply(404, NoRulebookPrefix \o req.gameId, <<>>)
    /\ modelCalls = 0
    /\ ~retrieved
    /\ relevantChunks = <<>>

\* C10 witness: "unknown-game", though the question matches chunks of the
\* store and the credential is set.
C10_Witness ==
  /\ Serving
  /\ req.gameId = UnknownGame
  /\ req.hasKey
  /\ \E i \in DOMAIN AllChunks : ScoreChunk(req.question.text, AllChunks[i]) > 0
  /\ response = Reply(404, NoRulebookPrefix \o UnknownGame, <<>>)

\* the model call of the request being served has ended this way
ModelEnded(kinds) == hpc = "done" /\ modelReply.kind \in kinds

\* C11: when the model call fails by a network error or returns a non-success
\* status, the handler completes with the fixed degraded-service message and
\* empty sources (status 200), not with an exception.
C11_ModelFailureContained ==
  ModelEnded({"network", "status"}) =>
    response = Reply(200, TroubleReaching, <<>>)

\* C11 witness: the model service answered a grounded request with a
\* non-success status and the handler sent the degraded-service message.
C11_Witness ==
  /\ ModelEnded({"status"})
  /\ relevantChunks # <<>>
  /\ modelCalls = 1
  /\ response = Reply(200, TroubleReaching, <<>>)

\* the request met a model-service failure: the credential is missing, the
\* call failed, or its payload has no usable first completion text
ServiceFailed ==
  \/ hpc = "done" /\ response = Reply(200, EngineUnavailable, <<>>)
  \/ ModelEnded({"network", "status", "badjson", "null", "nochoices"})
  \/ ModelEnded({"content"}) /\ Trim(modelReply.content) = <<>>

\* C12: every model-service failure, a payload without usable completion
\* text included, gives a response with empty sources.
C12_FailureHasNoSources == ServiceFailed => response.sources = <<>>

\* C13: the askRulebook call never rejects.
C13_ClientNeverRejects == clientResult # NoResult => clientResult.settled = "resolved"

\* C14: the answer of every response of the handler is a non-empty text.
C14_AnswerNeverEmpty == hpc = "done" => response.answer # <<>>

\* C14 witness: a whitespace-only completion was replaced by the fallback text.
C14_Witness ==
  /\ ModelEnded({"content"})
  /\ modelReply.content # <<>>
  /\ Trim(modelReply.content) = <<>>
  /\ response.answer = CouldNotGenerate

\* C19: every chunk retrieved for a request is of the request's gameId, and
\* every source of the response is the (page, section) of such a chunk.
C19_PartitionIsolation ==
  /\ \A i \in DOMAIN relevantChunks : relevantChunks[i].gameId = req.gameId
  /\ hpc = "done" =>
       \A i \in DOMAIN response.sources :
         \E k \in DOMAIN AllChunks :
           /\ AllChunks[k].gameId = req.gameId
           /\ AllChunks[k].page = response.sources[i].page
           /\ AllChunks[k].section = response.sources[i].section

\* C19 witness: the question also matches a chunk of another game, and the
\* answer names two sources.
C19_Witness ==
  /\ ModelEnded({"content"})
  /\ \E k \in DOMAIN AllChunks :
       /\ AllChunks[k].gameId # req.gameId
       /\ ScoreChunk(req.question.text, AllChunks[k]) > 0
  /\ Len(response.sources) = 2

\* the model call ended with a usable completion text
Answered == ModelEnded({"content"}) /\ Trim(modelReply.content) # <<>>

\* C20: on a successful answer the sources are the (page, section) pairs of
\* the retrieved chunks, one per chunk and in ranking order.
C20_SourcesAreRetrieved ==
  Answered =>
    /\ relevantChunks = RetrieveChunks(req.question.text, Partition(req.gameId), TopN)
    /\ Len(response.sources) = Len(relevantChunks)
    /\ \A i \in DOMAIN relevantChunks :
         /\ response.sources[i].page = relevantChunks[i].page
         /\ response.sources[i].section = relevantChunks[i].section
         /\ DOMAIN response.sources[i] = {"page", "section"}

\* C20 witness: two chunks were retrieved and the better one is the later
\* one of the store; the sources name it first.
C20_Witness ==
  /\ Answered
  /\ Len(relevantChunks) = 2
  /\ relevantChunks[1] = AllChunks[2]
  /\ response.sources[1].page = AllChunks[2].page
  /\ response.answer = Trim(modelReply.content)

\* C40: a response with sources was sent after a model call that returned a
\* success status; a response sent without a model call, or after a model
\* call that failed (fetch rejected, non-success status, unreadable body),
\* has no sources; the handler sends nothing while it awaits the model, has
\* sent a response when it is done, and a response changes only when the
\* next request is received.
C40_SourcesNeedModel ==
  /\ [](hpc = "done" => response # NoResponse)
  /\ [](hpc = "awaitModel" => response = NoResponse)
  /\ []((response # NoResponse /\ response.sources # <<>>) =>
          /\ modelCalls = 1
          /\ modelReply.kind \in {"badjson", "null", "nochoices", "content"})
  /\ []((hpc = "done" /\ (modelCalls = 0 \/ ModelEnded({"network", "status", "badjson"})))
          => response.sources = <<>>)
  /\ [][(response # NoResponse /\ response' # response) =>
          (modelReply' = NoModelReply /\ clientResult' = NoResult)]_allvars

\* C40 witness: the model service returned a success status with no choices,
\* and the response names the retrieved chunks as sources.
C40_Witness ==
  /\ ModelEnded({"nochoices"})
  /\ modelCalls = 1
  /\ response.sources # <<>>
  /\ response.sources = Sources(relevantChunks)

(***************************************************************************)
(* Claims about the functions.                                             *)
(***************************************************************************)
\* C15: the text of the assistant entry for a resolved call is never empty.
C15_TextNeverEmpty ==
  (call.fn = "assistantText" /\ returned.done) => returned.value # <<>>

\* C16: the sentence limit applied to its own output gives the same text.
C16_LimitIdempotent ==
  (call.fn = "limitSentences" /\ returned.done) =>
    LimitSentences(returned.value) = returned.value

\* retrieveChunks has returned
Retrieved == call.fn = "retrieveChunks" /\ returned.done

\* the score of a chunk for the question of the call
CallScore(chunk) == ScoreChunk(call.question, chunk)

\* the place of a chunk in the collection of the call
PlaceOf(chunk) == CHOOSE k \in DOMAIN call.chunks : call.chunks[k] = chunk

\* C17: the output of retrieveChunks is in descending order of score, and
\* chunks of equal score are in the order of the input collection.
C17_RankedStable ==
  Retrieved =>
    \A i, j \in DOMAIN returned.value :
      i < j =>
        \/ CallScore(returned.value[i]) > CallScore(returned.value[j])
        \/ /\ CallScore(returned.value[i]) = CallScore(returned.value[j])
           /\ PlaceOf(returned.value[i]) < PlaceOf(returned.value[j])

\* C17 witness: an output of three chunks in which two have the same score
\* and the first comes later in the input than the second.
C17_Witness ==
  /\ Retrieved
  /\ Len(returned.value) = 3
  /\ CallScore(returned.value[2]) = CallScore(returned.value[3])
  /\ PlaceOf(returned.value[1]) > PlaceOf(returned.value[2])

\* the places of the chunks of the call that score above zero
Scoring == {k \in DOMAIN call.chunks : CallScore(call.chunks[k]) > 0}

\* the places of the chunks of the call that are in the output
Kept == {k \in DOMAIN call.chunks :
           \E i \in DOMAIN returned.value : returned.value[i] = call.chunks[k]}

\* C18: retrieveChunks returns min(topN, k) chunks, all with a score above
\* zero and all from the input, and they are the first of the ranking: a
\* scoring chunk that is left out ranks after every chunk that is kept.
C18_TopOfRanking ==
  Retrieved =>
    /\ Len(returned.value) =
         (IF call.topN < Cardinality(Scoring) THEN call.topN ELSE Cardinality(Scoring))
    /\ Cardinality(Kept) = Len(returned.value)
    /\ Kept \subseteq Scoring
    /\ \A k \in Kept, m \in Scoring \ Kept :
         \/ CallScore(call.chunks[k]) > CallScore(call.chunks[m])
         \/ CallScore(call.chunks[k]) = CallScore(call.chunks[m]) /\ k < m

\* C18 witness: of three scoring chunks two are returned, and the one left
\* out comes first in the input.
C18_Witness ==
  /\ Retrieved
  /\ call.topN = 2
  /\ Cardinality(Scoring) = 3
  /\ Len(returned.value) = 2
  /\ 1 \notin Kept

\* scoreChunk has returned
Scored == call.fn = "scoreChunk" /\ returned.done

\* the lower-cased whitespace tokens of a text
Tokens(text) == Split(ToLower(text), WhiteSpace)

\* the pairs (question token longer than 2, chunk token) of which one
\* contains the other
TokenMatches(question, chunk) ==
  {p \in (DOMAIN Tokens(question)) \X (DOMAIN Tokens(chunk.text)) :
     /\ Len(Tokens(question)[p[1]]) > 2
     /\ \/ Includes(Tokens(chunk.text)[p[2]], Tokens(question)[p[1]])
        \/ Includes(Tokens(question)[p[1]], Tokens(chunk.text)[p[2]])}

\* the question tokens that are part of the lower-cased section label
SectionMatches(question, chunk) ==
  {i \in DOMAIN Tokens(question) : Includes(ToLower(chunk.section), Tokens(question)[i])}

\* C31: scoreChunk returns the number of token matches plus 2 for each
\* question token that is part of the section label, a natural number.
C31_ReferenceScore ==
  Scored =>
    /\ returned.value \in Nat
    /\ returned.value = Cardinality(TokenMatches(call.question, call.chunk))
                          + 2 * Cardinality(SectionMatches(call.question, call.chunk))

\* C31 witness: a score in which a chunk token shorter than the question
\* token that contains it counts, and so does the section bonus of a
\* question token of one character.
C31_Witness ==
  /\ Scored
  /\ \E p \in TokenMatches(call.question, call.chunk) :
       Len(Tokens(call.chunk.text)[p[2]]) < Len(Tokens(call.question)[p[1]])
  /\ \E i \in SectionMatches(call.question, call.chunk) :
       Len(Tokens(call.question)[i]) = 1
  /\ returned.value = 8

ScenarioQuestion == <<"H","o","w"," ","d","o"," ","I"," ","b","u","i","l","d"," ","a"," ","r","o","a","d","?">>

\* scoreChunk has returned the score of a Building Roads chunk for the
\* scenario's question
BuildingScored ==
  /\ Scored
  /\ call.question = ScenarioQuestion
  /\ call.chunk \in BuildingRoadsChunks
  /\ Includes(ToLower(call.chunk.text), <<"b","r","i","c","k">>)
  /\ Includes(ToLower(call.chunk.text), <<"w","o","o","d">>)

\* the Trading chunks whose text has neither "road" nor "build"
Unrelated ==
  {t \in TradingChunks :
     /\ ~Includes(ToLower(t.text), <<"r","o","a","d">>)
     /\ ~Includes(ToLower(t.text), <<"b","u","i","l","d">>)}

\* C32: for the question "How do I build a road?" a Building Roads chunk whose
\* text mentions brick and wood scores strictly higher than every Trading
\* chunk whose text has neither "road" nor "build".
C32_BuildingBeatsTrading ==
  BuildingScored =>
    \A t \in Unrelated : returned.value > ScoreChunk(ScenarioQuestion, t)

\* the sentence limit has returned
Limited == call.fn = "limitSentences" /\ returned.done

\* the sentences of a text: the maximal runs without a sentence end that
\* are not blank, as pairs of their first and last position
SentenceRuns(text) ==
  {r \in (DOMAIN text) \X (DOMAIN text) :
     /\ r[1] <= r[2]
     /\ \A k \in r[1]..r[2] : text[k] \notin SentenceEnd
     /\ r[1] = 1 \/ text[r[1] - 1] \in SentenceEnd
     /\ r[2] = Len(text) \/ text[r[2] + 1] \in SentenceEnd
     /\ \E k \in r[1]..r[2] : text[k] \notin WhiteSpace}

\* the k-th sentence of a text
SentenceAt(text, k) ==
  LET r == CHOOSE x \in SentenceRuns(text) :
             Cardinality({y \in SentenceRuns(text) : y[1] <= x[1]}) = k
  IN  SubSeq(text, r[1], r[2])

\* C33: the limited text has min(3, n) sentences, and its k-th sentence is
\* the k-th of the n sentences of the answer (after the blank that the
\* separator puts before every sentence but the first).
C33_FirstThreeSentences ==
  Limited =>
    LET n == Cardinality(SentenceRuns(call.answer))
        m == IF n < 3 THEN n ELSE 3
    IN  /\ Cardinality(SentenceRuns(returned.value)) = m
        /\ \A k \in 1..m :
             SentenceAt(returned.value, k) =
               (IF k > 1 THEN <<" ">> ELSE <<>>) \o SentenceAt(call.answer, k)

\* C33 witness: an answer of four sentences is cut to three.
C33_Witness ==
  /\ Limited
  /\ Cardinality(SentenceRuns(call.answer)) = 4
  /\ Cardinality(SentenceRuns(returned.value)) = 3

\* C39: retrieveChunks returns the same chunks in the same order for the
\* question with a blank added in front or behind.
C39_WhitespaceInsensitive ==
  Retrieved =>
    /\ RetrieveChunks(<<" ">> \o call.question, call.chunks, call.topN) = returned.value
    /\ RetrieveChunks(call.question \o <<" ">>, call.chunks, call.topN) = returned.value

====
